---- MODULE Spec2Model ----
(***************************************************************************)
(* Model of Python/plotlog.py: a straight-line script that reads the first *)
(* log of a JSON Well Log document, extracts the index column and every    *)
(* further column, and draws one matplotlib subplot per non-index curve.   *)
(* Python positions are 0-based; TLA+ sequences are 1-based, so element i  *)
(* of a Python list s is s[i + 1] here.                                    *)
(***************************************************************************)
EXTENDS Integers, Sequences, FiniteSets, TLC

(* ------------------------------ bounds -------------------------------- *)
MaxCurves == 3
MaxRows == 2
MaxRowLen == 3

(* ------------------------------ inputs -------------------------------- *)
\* Metadata used for the curve at (1-based) position p of a generated log.
CurveNames == <<"Depth", "Gamma", "Resistivity", "Porosity", "Density">>
CurveUnits == <<"m", "API", "ohm.m", "v/v", "g/cm3">>

\* A curve object is a JSON object: a function from its keys to strings.
\* Position p carries a well-formed curve or one lacking one of the keys.
CurveChoices(p) ==
    { [name |-> CurveNames[p], unit |-> CurveUnits[p]],
      [name |-> CurveNames[p]],
      [unit |-> CurveUnits[p]] }

CurveInputs ==
    UNION { { c \in [1..k -> UNION { CurveChoices(p) : p \in 1..k }] :
                \A p \in 1..k : c[p] \in CurveChoices(p) } : k \in 0..MaxCurves }

\* Row r of a generated table: every cell of the table holds a different
\* number, and the numbers of column 0 decrease from row to row.
GenRow(r, len) == [c \in 1..len |-> 10 * (MaxRows + 2 - r) + c]

DataInputs ==
    UNION { { [r \in 1..n |-> GenRow(r, lens[r])] : lens \in [1..n -> 0..MaxRowLen] } :
            n \in 0..MaxRows }

\* The example log of the documentation (Depth/Gamma, three rows).
ScenarioCurves == << [name |-> "Depth", unit |-> "m"], [name |-> "Gamma", unit |-> "API"] >>
ScenarioData == << <<0, 10>>, <<1, 20>>, <<2, 15>> >>

(* ------------------------------- state -------------------------------- *)
VARIABLES
    curves,      \* file[0]['curves']
    data,        \* file[0]['data']
    pc,          \* the statement the script executes next
    index,       \* the index column (line 10)
    curveIndex,  \* the loop variable (line 12)
    curve,       \* the column of the current curve (line 13)
    axes,        \* the figure's axes, in order of creation
    current,     \* pyplot's current axes: a position in axes, 0 when none
    ax,          \* the script's variable ax (line 17)
    title,       \* the figure's suptitle text
    titleCalls,  \* how many times the suptitle was set
    shown,       \* how many times the figure was displayed
    error        \* the uncaught exception that ended the run, if any

vars == << curves, data, pc, index, curveIndex, curve, axes, current, ax,
           title, titleCalls, shown, error >>

NoError == [kind |-> "none", at |-> "none"]

(* ------------------------- pure helper operators ---------------------- *)
\* A Python list index i >= 0 is in range iff i < len(row).
InRange(row, i) == i < Len(row)

\* Faulty variants of Column: the rows visited last to first, and rows without
\* position i skipped instead of raising.
RECURSIVE ColumnReversed(_, _)
ColumnReversed(rows, i) ==
    IF rows = <<>> THEN [ok |-> TRUE, val |-> <<>>]
    ELSE LET row == Head(rows) IN
         IF ~InRange(row, i) THEN [ok |-> FALSE, val |-> <<>>]
         ELSE LET rest == ColumnReversed(Tail(rows), i) IN
              IF rest.ok THEN [ok |-> TRUE, val |-> rest.val \o <<row[i + 1]>>]
              ELSE rest

RECURSIVE ColumnSkipping(_, _)
ColumnSkipping(rows, i) ==
    IF rows = <<>> THEN [ok |-> TRUE, val |-> <<>>]
    ELSE LET row == Head(rows)
             rest == ColumnSkipping(Tail(rows), i)
         IN IF ~InRange(row, i) THEN rest
            ELSE [ok |-> TRUE, val |-> <<row[i + 1]>> \o rest.val]

\* list(map(lambda row: row[i], rows)): the rows are visited first to last;
\* the first row without position i raises IndexError.
RECURSIVE Column(_, _)
Column(rows, i) ==
    IF rows = <<>> THEN [ok |-> TRUE, val |-> <<>>]
    ELSE LET row == Head(rows) IN
         IF ~InRange(row, i) THEN [ok |-> FALSE, val |-> <<>>]
         ELSE LET rest == Column(Tail(rows), i) IN
              IF rest.ok THEN [ok |-> TRUE, val |-> <<row[i + 1]>> \o rest.val]
              ELSE rest

\* curve["name"] and curve["unit"] raise KeyError when the key is absent.
HasKeys(c) == {"name", "unit"} \subseteq DOMAIN c

\* f'{c["name"]} [{c["unit"]}]'
FormatLabel(c) == c.name \o " [" \o c.unit \o "]"

\* Faulty variant of range: the loop starts at position 2.
rangeFromTwo(n) == [k \in 1..(IF n > 2 THEN n - 2 ELSE 0) |-> k + 1]

\* range(1, n) as the list of its values.
range(n) == [k \in 1..(IF n > 1 THEN n - 1 ELSE 0) |-> k]

\* The number of grid columns passed to plt.subplot.
GridCols(cs) == Len(cs)

\* A freshly created subplot.
NewAxes(ncols, num) ==
    [ nrows |-> 1, ncols |-> ncols, num |-> num, lines |-> <<>>,
      inverted |-> FALSE, invertCalls |-> 0,
      xticks |-> "bottom", xlabelpos |-> "bottom", yticklabels |-> "auto",
      xlabel |-> "", ylabel |-> "" ]

\* The position in axs of the subplot with this geometry, 0 when none.
FindAxes(axs, ncols, num) ==
    LET hits == { j \in 1..Len(axs) : axs[j].ncols = ncols /\ axs[j].num = num }
    IN IF hits = {} THEN 0 ELSE CHOOSE j \in hits : TRUE

\* Faulty variant of InvertYAxis: one y axis shared by all subplots is toggled.
InvertSharedYAxis(axs, a) ==
    [j \in 1..Len(axs) |-> [axs[j] EXCEPT !.inverted = ~@, !.invertCalls = @ + 1]]

\* ax.invert_yaxis() toggles the orientation of the y axis of ax only.
InvertYAxis(axs, a) ==
    [axs EXCEPT ![a].inverted = ~@, ![a].invertCalls = @ + 1]

\* Faulty variant of HidesYTickLabels: the first subplot loses its labels too.
HidesYTickLabelsAlways(i) == i >= 1

\* line 21: if curveIndex > 1
HidesYTickLabels(i) == i > 1

\* Faulty variant of HasYLabel: the vertical label is never set.
HasYLabelNever(i) == i = 0

\* line 23: if curveIndex == 1
HasYLabel(i) == i = 1

\* Faulty variant of XLabelCurve: the label comes from the curve before.
XLabelCurvePrevious(i) == i - 1

\* line 25: the curve whose metadata labels the horizontal axis
XLabelCurve(i) == i

\* plt.plot(curve, index): x data first, y data second.
NewLine(c, idx) == [xdata |-> c, ydata |-> idx]

\* Faulty variant of PlotAccepts: an empty series is rejected.
PlotRejectsEmpty(c, idx) == Len(c) = Len(idx) /\ Len(c) > 0

\* plt.plot raises ValueError unless x and y have the same length; empty
\* sequences are accepted.
PlotAccepts(c, idx) == Len(c) = Len(idx)

\* The points of a plotted line: x and y paired position by position.
Points(line) == [r \in 1..Len(line.xdata) |-> <<line.xdata[r], line.ydata[r]>>]

\* Faulty variant of AfterBody: the title and display follow the first pass.
AfterBodyLeavesLoop == "suptitle"

\* The statement that follows the loop body (the loop header).
AfterBody == "for"

(* ------------------------------- Init --------------------------------- *)
Init ==
    /\ \/ /\ curves \in CurveInputs
          /\ data \in DataInputs
       \/ /\ curves = ScenarioCurves
          /\ data = ScenarioData
    /\ pc = "index"
    /\ index = <<>>
    /\ curveIndex = 0
    /\ curve = <<>>
    /\ axes = <<>>
    /\ current = 0
    /\ ax = 0
    /\ title = ""
    /\ titleCalls = 0
    /\ shown = 0
    /\ error = NoError

(* ------------------------------ actions ------------------------------- *)
\* An uncaught exception ends the script: nothing after it is executed.
Raise(kind) ==
    /\ pc' = "failed"
    /\ error' = [kind |-> kind, at |-> pc]

\* line 10: index = list(map(lambda row: row[0], data))
ExtractIndex ==
    /\ pc = "index"
    /\ LET res == Column(data, 0) IN
       IF res.ok
       THEN /\ index' = res.val
            /\ pc' = "for"
            /\ UNCHANGED error
       ELSE /\ Raise("IndexError")
            /\ UNCHANGED index
    /\ UNCHANGED << curves, data, curveIndex, curve, axes, current, ax,
                    title, titleCalls, shown >>

\* line 12: for curveIndex in range(1, len(curves))
ForNext ==
    /\ pc = "for"
    /\ LET r == range(Len(curves))
           done == Cardinality({ k \in 1..Len(r) : r[k] <= curveIndex })
       IN IF done < Len(r)
          THEN /\ curveIndex' = r[done + 1]
               /\ pc' = "curve"
          ELSE /\ pc' = "suptitle"
               /\ UNCHANGED curveIndex
    /\ UNCHANGED << curves, data, index, curve, axes, current, ax,
                    title, titleCalls, shown, error >>

\* line 13: curve = list(map(lambda row: row[curveIndex], data))
ExtractCurve ==
    /\ pc = "curve"
    /\ LET res == Column(data, curveIndex) IN
       IF res.ok
       THEN /\ curve' = res.val
            /\ pc' = "subplot"
            /\ UNCHANGED error
       ELSE /\ Raise("IndexError")
            /\ UNCHANGED curve
    /\ UNCHANGED << curves, data, index, curveIndex, axes, current, ax,
                    title, titleCalls, shown >>

\* line 14: plt.subplot(1, len(curves), curveIndex)
Subplot ==
    /\ pc = "subplot"
    /\ LET ncols == GridCols(curves)
           found == FindAxes(axes, ncols, curveIndex)
       IN IF ~(1 <= curveIndex /\ curveIndex <= ncols)
          THEN /\ Raise("ValueError")
               /\ UNCHANGED << axes, current >>
          ELSE /\ IF found # 0
                  THEN /\ current' = found
                       /\ UNCHANGED axes
                  ELSE /\ axes' = Append(axes, NewAxes(ncols, curveIndex))
                       /\ current' = Len(axes) + 1
               /\ pc' = "plot"
               /\ UNCHANGED error
    /\ UNCHANGED << curves, data, index, curveIndex, curve, ax,
                    title, titleCalls, shown >>

\* line 15: plt.plot(curve, index)
Plot ==
    /\ pc = "plot"
    /\ IF ~PlotAccepts(curve, index)
       THEN /\ Raise("ValueError")
            /\ UNCHANGED axes
       ELSE /\ axes' = [axes EXCEPT ![current].lines = Append(@, NewLine(curve, index))]
            /\ pc' = "gca"
            /\ UNCHANGED error
    /\ UNCHANGED << curves, data, index, curveIndex, curve, current, ax,
                    title, titleCalls, shown >>

\* line 17: ax = plt.gca()
Gca ==
    /\ pc = "gca"
    /\ ax' = current
    /\ pc' = "invert"
    /\ UNCHANGED << curves, data, index, curveIndex, curve, axes, current,
                    title, titleCalls, shown, error >>

\* line 18: ax.invert_yaxis()
Invert ==
    /\ pc = "invert"
    /\ axes' = InvertYAxis(axes, ax)
    /\ pc' = "ticktop"
    /\ UNCHANGED << curves, data, index, curveIndex, curve, current, ax,
                    title, titleCalls, shown, error >>

\* line 19: ax.xaxis.tick_top()
TickTop ==
    /\ pc = "ticktop"
    /\ axes' = [axes EXCEPT ![ax].xticks = "top"]
    /\ pc' = "labeltop"
    /\ UNCHANGED << curves, data, index, curveIndex, curve, current, ax,
                    title, titleCalls, shown, error >>

\* line 20: ax.xaxis.set_label_position('top')
LabelTop ==
    /\ pc = "labeltop"
    /\ axes' = [axes EXCEPT ![ax].xlabelpos = "top"]
    /\ pc' = "yticklabels"
    /\ UNCHANGED << curves, data, index, curveIndex, curve, current, ax,
                    title, titleCalls, shown, error >>

\* line 21: if curveIndex > 1: ax.set_yticklabels([])
YTickLabels ==
    /\ pc = "yticklabels"
    /\ axes' = IF HidesYTickLabels(curveIndex)
               THEN [axes EXCEPT ![ax].yticklabels = "none"]
               ELSE axes
    /\ pc' = "ylabel"
    /\ UNCHANGED << curves, data, index, curveIndex, curve, current, ax,
                    title, titleCalls, shown, error >>

\* lines 23-24: if curveIndex == 1: plt.ylabel(f'{curves[0]["name"]} [{curves[0]["unit"]}]')
YLabel ==
    /\ pc = "ylabel"
    /\ IF ~HasYLabel(curveIndex)
       THEN /\ pc' = "xlabel"
            /\ UNCHANGED << axes, error >>
       ELSE IF ~InRange(curves, 0) THEN /\ Raise("IndexError")
                                        /\ UNCHANGED axes
       ELSE IF ~HasKeys(curves[1]) THEN /\ Raise("KeyError")
                                        /\ UNCHANGED axes
       ELSE /\ axes' = [axes EXCEPT ![current].ylabel = FormatLabel(curves[1])]
            /\ pc' = "xlabel"
            /\ UNCHANGED error
    /\ UNCHANGED << curves, data, index, curveIndex, curve, current, ax,
                    title, titleCalls, shown >>

\* line 25: plt.xlabel(f'{curves[curveIndex]["name"]} [{curves[curveIndex]["unit"]}]')
XLabel ==
    /\ pc = "xlabel"
    /\ LET i == XLabelCurve(curveIndex) IN
       IF ~InRange(curves, i) THEN /\ Raise("IndexError")
                                   /\ UNCHANGED axes
       ELSE IF ~HasKeys(curves[i + 1]) THEN /\ Raise("KeyError")
                                            /\ UNCHANGED axes
       ELSE /\ axes' = [axes EXCEPT ![current].xlabel = FormatLabel(curves[i + 1])]
            /\ pc' = AfterBody
            /\ UNCHANGED error
    /\ UNCHANGED << curves, data, index, curveIndex, curve, current, ax,
                    title, titleCalls, shown >>

\* line 27: plt.gcf().suptitle("JSON Well Log")
Suptitle ==
    /\ pc = "suptitle"
    /\ title' = "JSON Well Log"
    /\ titleCalls' = titleCalls + 1
    /\ pc' = "show"
    /\ UNCHANGED << curves, data, index, curveIndex, curve, axes, current, ax,
                    shown, error >>

\* line 28: plt.show()
Show ==
    /\ pc = "show"
    /\ shown' = shown + 1
    /\ pc' = "done"
    /\ UNCHANGED << curves, data, index, curveIndex, curve, axes, current, ax,
                    title, titleCalls, error >>

Next ==
    \/ ExtractIndex
    \/ ForNext
    \/ ExtractCurve
    \/ Subplot
    \/ Plot
    \/ Gca
    \/ Invert
    \/ TickTop
    \/ LabelTop
    \/ YTickLabels
    \/ YLabel
    \/ XLabel
    \/ Suptitle
    \/ Show

Spec == Init /\ [][Next]_vars

\* The interpreter runs the script statement by statement until it ends.
FairSpec == Spec /\ WF_vars(Next)

(* ------------------------ vocabulary of the claims -------------------- *)
K == Len(curves)
Rectangular == \A r \in 1..Len(data) : Len(data[r]) = K
ShortRow == \E r \in 1..Len(data) : Len(data[r]) < K
EmptyRow == \E r \in 1..Len(data) : Len(data[r]) = 0
Malformed == \E p \in 1..K : ~({"name", "unit"} \subseteq DOMAIN curves[p])
ReachedDisplay == pc \in {"show", "done"}
Terminated == pc \in {"done", "failed"}
Failed == pc = "failed"
\* The length of the shortest data row (only used when there is a row).
MinRowLen == CHOOSE m \in 0..(MaxRowLen + 2) :
                /\ \E r \in 1..Len(data) : Len(data[r]) = m
                /\ \A r \in 1..Len(data) : Len(data[r]) >= m
\* The label the documentation prescribes for the curve at Python position i.
ExpectedLabel(i) == curves[i + 1].name \o " [" \o curves[i + 1].unit \o "]"
\* Subplot j has gone through the whole loop body.
Finished(j) == j < Len(axes) \/ pc \in {"for", "suptitle", "show", "done"}

(* ------------------------------- claims ------------------------------- *)
\* C1: when all rows have length K >= 1 and the run reaches the display
\* step, exactly K-1 subplots exist, created in ascending order for the
\* curve positions 1..K-1, and none for position 0.
C1_SubplotPerCurve ==
    (ReachedDisplay /\ K >= 1 /\ Rectangular) =>
        /\ Len(axes) = K - 1
        /\ \A j \in 1..Len(axes) : axes[j].num = j
        /\ \A j \in 1..Len(axes) : axes[j].num # 0

C1_Witness ==
    /\ pc = "done" /\ K = 3 /\ Rectangular /\ Len(data) = 2
    /\ Len(axes) = 2

\* C2: every subplot lies in a 1-row grid of K-1 columns at position
\* curveIndex, so that at display time the subplots fill every grid cell.
C2_GridFilled ==
    /\ \A j \in 1..Len(axes) : axes[j].nrows = 1 /\ axes[j].ncols = K - 1
    /\ ReachedDisplay =>
          \A j \in 1..Len(axes) :
              { axes[k].num : k \in 1..Len(axes) } = 1..(axes[j].nrows * axes[j].ncols)

\* C3: at display time the vertical label "name [unit]" of curve 0 is on the
\* subplot of position 1 and on no other, and the vertical tick labels are
\* suppressed on every subplot of position > 1 and never on position 1.
C3_VerticalLabels ==
    ReachedDisplay =>
        \A j \in 1..Len(axes) :
            /\ axes[j].num = 1 =>
                  /\ HasKeys(curves[1])
                  /\ axes[j].ylabel = ExpectedLabel(0)
                  /\ axes[j].yticklabels = "auto"
                  /\ curves = ScenarioCurves => axes[j].ylabel = "Depth [m]"
            /\ axes[j].num > 1 =>
                  /\ axes[j].ylabel = ""
                  /\ axes[j].yticklabels = "none"

C3_Witness ==
    /\ pc = "show" /\ Len(axes) = 2
    /\ axes[1].ylabel = "Depth [m]" /\ axes[2].yticklabels = "none"

\* C4: the subplot of curve position i carries the horizontal label
\* "name [unit]" of that same position i, and it is the subplot that holds
\* the data of column i.
C4_HorizontalLabels ==
    \A j \in 1..Len(axes) :
        Finished(j) =>
            /\ HasKeys(curves[axes[j].num + 1])
            /\ axes[j].xlabel = ExpectedLabel(axes[j].num)
            /\ Len(axes[j].lines) = 1
            /\ axes[j].lines[1].xdata = [r \in 1..Len(data) |-> data[r][axes[j].num + 1]]
            /\ curves = ScenarioCurves => axes[j].xlabel = "Gamma [API]"

C4_Witness ==
    /\ pc = "done" /\ Len(axes) = 2 /\ Len(data) = 2
    /\ axes[1].xlabel = "Gamma [API]" /\ axes[2].xlabel = "Resistivity [ohm.m]"

\* C5: an extracted column i is [row[i] for row in data] in row order, and
\* the series of subplot i is the row-by-row pairing (column i, column 0);
\* the documented example yields the points (10,0), (20,1), (15,2).
C5_ColumnExtraction ==
    /\ (pc # "index" /\ error.at # "index") =>
          index = [r \in 1..Len(data) |-> data[r][1]]
    /\ pc \in {"subplot", "plot", "gca", "invert", "ticktop", "labeltop",
               "yticklabels", "ylabel", "xlabel"} =>
          curve = [r \in 1..Len(data) |-> data[r][curveIndex + 1]]
    /\ \A j \in 1..Len(axes) : \A k \in 1..Len(axes[j].lines) :
          /\ Points(axes[j].lines[k]) =
                [r \in 1..Len(data) |-> <<data[r][axes[j].num + 1], data[r][1]>>]
          /\ data = ScenarioData =>
                Points(axes[j].lines[k]) = << <<10, 0>>, <<20, 1>>, <<15, 2>> >>

C5_Witness ==
    /\ pc = "done" /\ data = ScenarioData
    /\ Len(axes) = 1 /\ Len(axes[1].lines) = 1

\* C6 as stated: whenever a row is shorter than len(curves), the run ends in
\* an index/range failure raised during column extraction.
C6_AlwaysIndexError ==
    (Terminated /\ ShortRow) =>
        /\ Failed /\ shown = 0
        /\ error.kind = "IndexError" /\ error.at \in {"index", "curve"}

\* C6 as amended: a row shorter than len(curves) always ends the run in a
\* failure before the display step; the failure is the IndexError of the
\* column extraction unless a curve at a position below the shortest row's
\* length lacks a key, whose label lookup raises KeyError first.
C6_ShortRowFails ==
    ShortRow =>
        /\ ~ReachedDisplay /\ pc # "suptitle" /\ shown = 0
        /\ Terminated =>
              /\ Failed
              /\ IF MinRowLen >= 2 /\ \E p \in 1..MinRowLen : ~HasKeys(curves[p])
                 THEN error.kind = "KeyError" /\ error.at \in {"ylabel", "xlabel"}
                 ELSE error.kind = "IndexError" /\ error.at \in {"index", "curve"}

C6_Witness ==
    /\ Failed /\ ShortRow /\ ~Malformed /\ K = 3
    /\ error.kind = "IndexError" /\ error.at = "curve" /\ Len(axes) = 1

\* C7: with K >= 1 well-formed curves and no data rows, the index and every
\* column are empty, nothing fails, K-1 subplots with empty series are
\* created and the run reaches the display step.
C7_Pre == data = <<>> /\ K >= 1 /\ ~Malformed

C7_Safe ==
    /\ ~Failed /\ error = NoError
    /\ index = <<>> /\ curve = <<>>
    /\ \A j \in 1..Len(axes) : \A k \in 1..Len(axes[j].lines) :
          axes[j].lines[k].xdata = <<>> /\ axes[j].lines[k].ydata = <<>>
    /\ ReachedDisplay =>
          /\ Len(axes) = K - 1
          /\ \A j \in 1..Len(axes) : Len(axes[j].lines) = 1

C7_EmptyData == [](C7_Pre => C7_Safe) /\ (C7_Pre ~> (pc = "done" /\ shown = 1))

C7_Witness ==
    /\ C7_Pre /\ K = 3 /\ pc = "done" /\ shown = 1
    /\ Len(axes) = 2 /\ axes[2].lines[1].xdata = <<>>

\* C8 as stated: a curve without name or unit, an empty curves list or an
\* empty data list each make the run end in a failure.
C8_AlwaysFails ==
    (Terminated /\ (Malformed \/ curves = <<>> \/ data = <<>>)) => Failed

\* C8 as amended: in a log of at least two curves a curve without name or
\* unit ends the run in a failure before the display step; a log of at most
\* one curve fails exactly when a data row is empty, whatever its metadata,
\* and an empty data list causes no failure of its own.
C8_MalformedFails ==
    /\ (K >= 2 /\ Malformed) => (~ReachedDisplay /\ pc # "suptitle" /\ shown = 0)
    /\ Terminated =>
          /\ (K >= 2 /\ Malformed) => Failed
          /\ K <= 1 => (Failed <=> EmptyRow)
          /\ (data = <<>> /\ ~(K >= 2 /\ Malformed)) => pc = "done"

C8_Witness ==
    /\ Failed /\ K = 3 /\ Rectangular /\ Len(data) = 2
    /\ HasKeys(curves[1]) /\ HasKeys(curves[2]) /\ ~HasKeys(curves[3])
    /\ error.kind = "KeyError"

\* C9: at display time every subplot's vertical axis is inverted, the
\* inversion having been applied exactly once to each subplot's own axis,
\* for an even as for an odd number of subplots.
C9_AllInverted ==
    /\ \A j \in 1..Len(axes) : axes[j].invertCalls <= 1
    /\ \A j \in 1..Len(axes) : Finished(j) => (axes[j].inverted /\ axes[j].invertCalls = 1)
    /\ ReachedDisplay => \A j \in 1..Len(axes) : axes[j].inverted

C9_Witness ==
    /\ pc = "show" /\ Len(axes) = 2
    /\ axes[1].inverted /\ axes[2].inverted

\* Every subplot of positions 1..K-1 exists and went through the loop body.
LoopFinished ==
    /\ error = NoError
    /\ Len(axes) = (IF K >= 1 THEN K - 1 ELSE 0)
    /\ \A j \in 1..Len(axes) :
          /\ axes[j].num = j
          /\ Len(axes[j].lines) = 1
          /\ axes[j].inverted
          /\ axes[j].xticks = "top" /\ axes[j].xlabelpos = "top"
          /\ axes[j].xlabel # ""

\* C10 as stated, its finite part: every run sets the title exactly once.
C10_TitleInEveryRun ==
    /\ titleCalls <= 1 /\ shown <= 1
    /\ (titleCalls >= 1 \/ shown >= 1) => LoopFinished
    /\ Failed => shown = 0
    /\ Terminated => titleCalls = 1

C10_Safe ==
    /\ titleCalls <= 1 /\ shown <= 1
    /\ (titleCalls >= 1 \/ shown >= 1) => LoopFinished
    /\ shown >= 1 => (titleCalls = 1 /\ title = "JSON Well Log")
    /\ Failed => (shown = 0 /\ titleCalls = 0 /\ title = "" /\ error # NoError)
    /\ pc = "done" => (shown = 1 /\ titleCalls = 1)

\* C10 as amended: the title is set at most once and the display happens at
\* most once, both only after the loop has finished every subplot; a run
\* that reaches the display step has set the title exactly once and a run
\* that fails has neither set the title nor displayed anything, although
\* earlier subplots were built; and every run terminates.
C10_TitleAndDisplayLast == []C10_Safe /\ <>Terminated

C10_Witness ==
    /\ Failed /\ K = 3 /\ error.at \in {"curve", "xlabel"}
    /\ Len(axes) >= 1 /\ axes[1].xlabel # "" /\ shown = 0

====
